---- MODULE Spec2Model ----
(***************************************************************************)
(* X402Agent (packages/hardhat/lib/x402Agent.ts): a client that wraps a    *)
(* payment-capable fetch.  The model follows the JavaScript execution of   *)
(* the class: the constructor, the synchronous prefix of callEndpoint (up  *)
(* to the first await), and the two continuations that run when the fetch  *)
(* promise and the body promise settle.                                    *)
(*                                                                         *)
(* The Chat component (its handleSubmit and form) is modelled next to it,  *)
(* with its own variables and its own specification SpecChat.              *)
(*                                                                         *)
(* JavaScript values are tagged records [t |-> typeof-like tag, v |-> ..]. *)
(* Strings are TLA+ strings; JSON.stringify and JSON.parse are computed.   *)
(***************************************************************************)
EXTENDS Integers, Sequences, FiniteSets, TLC

VARIABLES
    account,            \* agent -> derived address, or NoAccount before construction
    fetchWithPayment,   \* agent -> the payment-capable function built by the constructor
    ctor,               \* agent -> record of the last constructor run (history)
    hdrOrig,            \* the caller's reusable headers object as the caller created it
    hdrObj,             \* the caller's reusable headers object as it is now
    calls,              \* slot -> one callEndpoint invocation (its promise and closure)
    last,               \* the most recent API invocation: arguments and emitted request (history)
    input,              \* Chat: the input state (the text of the textarea)
    messages,           \* Chat: the messages state
    isLoading,          \* Chat: the isLoading state
    rendered,           \* Chat: the state values the closures of the last render hold
    chat,               \* Chat: handler -> one handleSubmit invocation past its guard
    chatLast,           \* Chat: the most recent submit event or handler end (history)
    isDownloading,      \* StorePage: the isDownloading state
    error,              \* StorePage: the error state (null or a message)
    success,            \* StorePage: the success state
    isConnected,        \* StorePage: isConnected of useAccount()
    walletClient,       \* StorePage: whether useWalletClient() has data
    downloads,          \* StorePage: handler -> one handleDownload invocation past its guard
    timers,             \* StorePage: pending setTimeout(() => setSuccess(false), 5000) callbacks
    storeLast           \* StorePage: the most recent click on the download button (history)

agentVars == <<account, fetchWithPayment, ctor, hdrOrig, hdrObj, calls, last>>
chatVars == <<input, messages, isLoading, rendered, chat, chatLast>>
storeVars ==
    <<isDownloading, error, success, isConnected, walletClient, downloads, timers, storeLast>>
vars == <<account, fetchWithPayment, ctor, hdrOrig, hdrObj, calls, last,
          input, messages, isLoading, rendered, chat, chatLast,
          isDownloading, error, success, isConnected, walletClient, downloads, timers,
          storeLast>>

----------------------------------------------------------------------------
(* Bounds of the model *)

\* Invocations that may be outstanding at the same time.
MaxOutstanding == 2
\* Chat: handleSubmit invocations that may be past the guard at the same time.
MaxChatHandlers == 2
\* Chat: the length of the conversation up to which the user submits.
MaxMessages == 4
\* StorePage: handleDownload invocations that may be past the guard at the same time.
MaxDownloads == 2
\* StorePage: success timers that may be pending at the same time.
MaxTimers == 2

\* The clients of the process: two, so that clients built from the same key can be
\* compared.
Agents == {"agent", "twin"}
Slots == 1..MaxOutstanding

----------------------------------------------------------------------------
(* JavaScript values *)

Undefined == [t |-> "undefined"]
JNull == [t |-> "null"]
JStr(s) == [t |-> "string", v |-> s]
JNum(n) == [t |-> "number", v |-> n]
JBool(b) == [t |-> "boolean", v |-> b]
\* A plain object: its own properties in insertion order, <<key, value>>.
JObj(props) == [t |-> "object", v |-> props]
JArr(elems) == [t |-> "array", v |-> elems]
\* An object that contains itself (o.self = o).
JCyclic == [t |-> "cyclic"]

\* typeof v
TypeOf(v) ==
    IF v.t \in {"null", "object", "array", "cyclic"} THEN "object" ELSE v.t

\* ToBoolean(v), as used by if (v), !v, v ? a : b and a || b
Truthy(v) ==
    CASE v.t = "undefined" -> FALSE
      [] v.t = "null" -> FALSE
      [] v.t = "string" -> v.v # ""
      [] v.t = "number" -> v.v # 0
      [] v.t = "boolean" -> v.v
      [] OTHER -> TRUE

\* obj?.key : a property read with optional chaining
Get(obj, key) ==
    IF obj.t = "object" /\ \E i \in 1..Len(obj.v) : obj.v[i][1] = key
    THEN obj.v[CHOOSE i \in 1..Len(obj.v) : obj.v[i][1] = key][2]
    ELSE Undefined

StartsWith(s, prefix) ==
    Len(s) >= Len(prefix) /\ SubSeq(s, 1, Len(prefix)) = prefix

Contains(s, m) ==
    \E i \in 0..(Len(s) - Len(m)) : SubSeq(s, i + 1, i + Len(m)) = m

----------------------------------------------------------------------------
(* JSON *)

RECURSIVE JSONStringify(_)
RECURSIVE StringifyProps(_, _)
RECURSIVE StringifyElems(_, _)

\* JSON.stringify(v) for a value it accepts (see StringifyThrows)
JSONStringify(v) ==
    CASE v.t = "string" -> "\"" \o v.v \o "\""
      [] v.t = "number" -> ToString(v.v)
      [] v.t = "boolean" -> (IF v.v THEN "true" ELSE "false")
      [] v.t = "null" -> "null"
      [] v.t = "object" -> "{" \o StringifyProps(v.v, 1) \o "}"
      [] v.t = "array" -> "[" \o StringifyElems(v.v, 1) \o "]"

StringifyProps(props, i) ==
    IF i > Len(props) THEN ""
    ELSE (IF i > 1 THEN "," ELSE "")
         \o "\"" \o props[i][1] \o "\":" \o JSONStringify(props[i][2])
         \o StringifyProps(props, i + 1)

StringifyElems(elems, i) ==
    IF i > Len(elems) THEN ""
    ELSE (IF i > 1 THEN "," ELSE "") \o JSONStringify(elems[i])
         \o StringifyElems(elems, i + 1)

\* JSON.stringify throws a TypeError on a circular structure.
StringifyThrows(v) == v.t = "cyclic"

\* The documents a server or facilitator sends in this model.
MessageDoc == JObj(<< <<"message", JStr("ok")>> >>)
PaymentFull ==
    JObj(<< <<"txHash", JStr("0xabc")>>, <<"amount", JStr("10")>>,
            <<"recipient", JStr("0x5")>>, <<"chainId", JNum(8)>> >>)
\* Only some of the well-known fields, and a field the envelope does not copy.
PaymentPartial == JObj(<< <<"txHash", JStr("0xabc")>>, <<"network", JStr("base")>> >>)
JsonDocs == {MessageDoc, PaymentFull, PaymentPartial}

\* JSON.parse(text): the document whose serialization is text, or a SyntaxError.
JSONParse(text) ==
    IF \E d \in JsonDocs : JSONStringify(d) = text
    THEN [ok |-> TRUE, value |-> CHOOSE d \in JsonDocs : JSONStringify(d) = text]
    ELSE [ok |-> FALSE, value |-> Undefined]

----------------------------------------------------------------------------
(* Errors.  A thrown value is an object with an optional message and an   *)
(* optional response.data.error.                                           *)

Thrown(message, respError) == [t |-> "thrown", message |-> message, respError |-> respError]
NoThrown == [t |-> "none"]

SyntaxError == Thrown(JStr("Unexpected token"), Undefined)
ReadError == Thrown(JStr("terminated"), Undefined)
DecodeError == Thrown(JStr("bad payment header"), Undefined)

\* What the payment-capable function may throw.
TransportErrors ==
    { Thrown(JStr("net down"), Undefined),
      Thrown(JStr(""), JStr("srv")),
      Thrown(Undefined, Undefined) }

----------------------------------------------------------------------------
(* The external libraries *)

\* The encoding of the x-payment-response header: a marker and the JSON text
\* (the library uses base64 of the JSON text).
EncodeXPaymentResponse(doc) == "b64:" \o JSONStringify(doc)

\* decodeXPaymentResponse(header) of x402-fetch: the decoded object, or a throw.
decodeXPaymentResponse(header) ==
    IF StartsWith(header, "b64:")
    THEN JSONParse(SubSeq(header, 5, Len(header)))
    ELSE [ok |-> FALSE, value |-> Undefined]

\* A derivation that mixes in how many accounts the process has derived so far.
privateKeyToAccountSalted(key) ==
    IF key \in {"0x1", "0x2"}
    THEN [ok |-> TRUE,
          address |-> "0xA" \o SubSeq(key, 3, Len(key))
                      \o ToString(Cardinality({a \in DOMAIN account : account[a] # ""}))]
    ELSE [ok |-> FALSE, address |-> ""]

\* privateKeyToAccount(key) of viem: the keys it accepts, and the address it derives.
ValidKeys == {"0x1", "0x2"}
privateKeyToAccount(key) ==
    IF key \in ValidKeys
    THEN [ok |-> TRUE, address |-> "0xA" \o SubSeq(key, 3, Len(key))]
    ELSE [ok |-> FALSE, address |-> ""]

\* wrapFetchWithPayment(fetch, account): a function closed over the account.
wrapFetchWithPayment(acct) == [t |-> "fn", account |-> acct]

NoAccount == ""
NoFunction == [t |-> "none", account |-> ""]

----------------------------------------------------------------------------
(* Inputs *)

Keys == {"0x1", "0x2", "0xg", "0x", "0a", "1", ""}

Bases == {"", "http://x", "http://x/"}
BuilderPath == "/api/payment/builder"
Urls == {b \o BuilderPath : b \in Bases}

\* A header record: header name -> value.
EmptyHeaders == << >>
ContentType == "Content-Type"
ApplicationJson == "application/json"
\* The headers objects a caller may hold and reuse across calls.
CallerHeaders == {EmptyHeaders, ContentType :> "text/plain"}
\* options.headers: omitted, or the caller's reusable headers object.
HRef == [t |-> "ref"]

MethodOpts == {Undefined, JStr("GET"), JStr("POST")}
HeaderOpts == {Undefined, HRef}
BodyOpts ==
    { Undefined, JNull, JStr(""), JNum(0), JBool(FALSE),
      JStr("s"), JObj(<< <<"a", JNum(1)>> >>), JArr(<<JNum(1)>>), JCyclic }
ParseJsonOpts == {Undefined, JBool(TRUE), JBool(FALSE)}

Options == [method : MethodOpts, headers : HeaderOpts, body : BodyOpts, parseJson : ParseJsonOpts]

\* The responses a server may give.
NoResponse == [t |-> "none"]
StatusLines == { <<200, "OK">>, <<402, "Payment Required">> }
BodyTexts == { JSONStringify(MessageDoc), "oops" }
HeaderValues ==
    { JNull, JStr(""), JStr("!"),
      JStr(EncodeXPaymentResponse(PaymentPartial)), JStr(EncodeXPaymentResponse(PaymentFull)) }
Responses ==
    { [t |-> "response", status |-> sl[1], statusText |-> sl[2], body |-> b, header |-> h] :
        sl \in StatusLines, b \in BodyTexts, h \in HeaderValues }

----------------------------------------------------------------------------
(* X402Agent.constructor *)

\* A prefix test that looks at the first character only.
HasZeroPrefix(privateKey) == StartsWith(privateKey, "0")

\* privateKey.startsWith("0x")
HasHexPrefix(privateKey) == StartsWith(privateKey, "0x")

NotConstructed == [key |-> "", result |-> "none", libCalls |-> << >>]

\* new X402Agent(privateKey): the record of the run, in the order of the code.
Constructor(privateKey) ==
    IF ~HasHexPrefix(privateKey)
    THEN [key |-> privateKey, result |-> "ConfigurationError", libCalls |-> << >>]
    ELSE IF ~privateKeyToAccount(privateKey).ok
    THEN [key |-> privateKey, result |-> "InvalidKeyError",
          libCalls |-> <<"privateKeyToAccount">>]
    ELSE [key |-> privateKey, result |-> "ok",
          libCalls |-> <<"privateKeyToAccount", "wrapFetchWithPayment">>]

\* get address()
Address(a) == account[a]

----------------------------------------------------------------------------
(* X402Agent.callEndpoint: the synchronous prefix (lines 134-158) *)

\* A method default of POST.
MethodDefaultPost(options) == IF options.method = Undefined THEN "POST" ELSE options.method.v

\* const { method = "GET", ... } = options
Method(options) == IF options.method = Undefined THEN "GET" ELSE options.method.v

\* const { headers = {}, ... } = options: what the headers object holds.  H is the
\* content of the caller's reusable object; a default {} is a fresh object.
HeadersArg(options, H) == IF options.headers = Undefined THEN EmptyHeaders ELSE H

\* A selection of the body decoder that ignores the option.
ParseJsonAlways(opt) == TRUE

\* const { parseJson = true } = options, as tested by parseJson ? .. : ..
ParseJson(opt) == IF opt = Undefined THEN TRUE ELSE Truthy(opt)

\* A body test that looks for undefined only.
HasBodyDefined(options) == options.body # Undefined

\* if (body)
HasBody(options) == Truthy(options.body)

\* if (body) { if (typeof body === "object") ...
IsObjectBody(options) == HasBody(options) /\ TypeOf(options.body) = "object"

\* JSON.stringify(body) throws: it runs before the try block.
BuildThrows(options) == IsObjectBody(options) /\ StringifyThrows(options.body)

\* fetchOptions.body (Undefined: the property is not set)
RequestBody(options) ==
    IF ~HasBody(options) THEN Undefined
    ELSE IF TypeOf(options.body) = "object" THEN JStr(JSONStringify(options.body))
    ELSE options.body

\* fetchOptions.headers when fetchWithPayment is called
RequestHeaders(options, H) ==
    IF IsObjectBody(options)
    THEN (ContentType :> ApplicationJson) @@ HeadersArg(options, H)
    ELSE HeadersArg(options, H)

NoRequest == [t |-> "none"]

\* The (url, fetchOptions) handed to this.fetchWithPayment
FetchOptions(url, options, H) ==
    [t |-> "request", url |-> url, method |-> Method(options),
     headers |-> RequestHeaders(options, H), body |-> RequestBody(options)]

\* The caller's headers object after the prefix ran: fetchOptions.headers is the
\* caller's object itself, so the assignment of line 150 writes to it.
HeadersAfter(options, H) ==
    IF options.headers = HRef THEN RequestHeaders(options, H) ELSE H

----------------------------------------------------------------------------
(* X402Agent.callEndpoint: the continuations (lines 158-183) *)

NoOutcome == [t |-> "none"]

\* An error text that leaves out error.message.
ErrorMessageWithoutCause(e) ==
    IF Truthy(e.respError) THEN e.respError.v ELSE "Unknown error"

\* error.message || error.response?.data?.error || "Unknown error"
ErrorMessage(e) ==
    IF Truthy(e.message) THEN e.message.v
    ELSE IF Truthy(e.respError) THEN e.respError.v
    ELSE "Unknown error"

\* catch (error) { throw new Error(`X402 request failed: ${errorMessage}`) }
Catch(e) ==
    [t |-> "error", site |-> "catch", name |-> "Error",
     message |-> "X402 request failed: " \o ErrorMessage(e)]

\* The TypeError of JSON.stringify, thrown at line 145.
StringifyTypeError ==
    [t |-> "error", site |-> "JSON.stringify", name |-> "TypeError",
     message |-> "Converting circular structure to JSON"]

\* parseJson ? await response.json() : await response.text()
BodyResult(parseJson, resp, readFails) ==
    IF readFails THEN [ok |-> FALSE, value |-> Undefined, error |-> ReadError]
    ELSE IF parseJson
    THEN LET r == JSONParse(resp.body)
         IN  IF r.ok THEN [ok |-> TRUE, value |-> r.value, error |-> NoThrown]
             ELSE [ok |-> FALSE, value |-> Undefined, error |-> SyntaxError]
    ELSE [ok |-> TRUE, value |-> JStr(resp.body), error |-> NoThrown]

\* A payment lookup that yields {} in place of null when there is no header.
PaymentResponseOrEmptyObject(resp) ==
    IF Truthy(resp.header)
    THEN LET d == decodeXPaymentResponse(resp.header.v)
         IN  IF d.ok THEN [ok |-> TRUE, value |-> d.value, error |-> NoThrown, called |-> TRUE]
             ELSE [ok |-> FALSE, value |-> Undefined, error |-> DecodeError, called |-> TRUE]
    ELSE [ok |-> TRUE, value |-> JObj(<< >>), error |-> NoThrown, called |-> FALSE]

\* A payment lookup that turns a decoder failure into null.
PaymentResponseSwallowing(resp) ==
    IF Truthy(resp.header)
    THEN LET d == decodeXPaymentResponse(resp.header.v)
         IN  IF d.ok THEN [ok |-> TRUE, value |-> d.value, error |-> NoThrown, called |-> TRUE]
             ELSE [ok |-> TRUE, value |-> JNull, error |-> NoThrown, called |-> TRUE]
    ELSE [ok |-> TRUE, value |-> JNull, error |-> NoThrown, called |-> FALSE]

\* A payment lookup that decodes every header that is present, an empty one too.
PaymentResponseIfPresent(resp) ==
    IF resp.header # JNull
    THEN LET d == decodeXPaymentResponse(resp.header.v)
         IN  IF d.ok THEN [ok |-> TRUE, value |-> d.value, error |-> NoThrown, called |-> TRUE]
             ELSE [ok |-> FALSE, value |-> Undefined, error |-> DecodeError, called |-> TRUE]
    ELSE [ok |-> TRUE, value |-> JNull, error |-> NoThrown, called |-> FALSE]

\* paymentResponseHeader ? decodeXPaymentResponse(paymentResponseHeader) : null
\* (called: whether the decoder was invoked)
PaymentResponse(resp) ==
    IF Truthy(resp.header)
    THEN LET d == decodeXPaymentResponse(resp.header.v)
         IN  IF d.ok THEN [ok |-> TRUE, value |-> d.value, error |-> NoThrown, called |-> TRUE]
             ELSE [ok |-> FALSE, value |-> Undefined, error |-> DecodeError, called |-> TRUE]
    ELSE [ok |-> TRUE, value |-> JNull, error |-> NoThrown, called |-> FALSE]

\* How often lines 164-165 invoke decodeXPaymentResponse: they are reached only when
\* the body was decoded.
HeaderDecoderCalls(parseJson, resp, readFails) ==
    IF BodyResult(parseJson, resp, readFails).ok /\ PaymentResponse(resp).called THEN 1 ELSE 0

\* An envelope whose amount is copied from the wrong field.
EnvelopeAmountFromTxHash(data, paymentResponse, resp) ==
    [t |-> "envelope",
     data |-> data,
     payment |-> [txHash |-> Get(paymentResponse, "txHash"),
                  amount |-> Get(paymentResponse, "txHash"),
                  recipient |-> Get(paymentResponse, "recipient"),
                  chainId |-> Get(paymentResponse, "chainId"),
                  raw |-> paymentResponse],
     status |-> resp.status,
     statusText |-> resp.statusText]

\* return { data, payment: {...}, status, statusText }
Envelope(data, paymentResponse, resp) ==
    [t |-> "envelope",
     data |-> data,
     payment |-> [txHash |-> Get(paymentResponse, "txHash"),
                  amount |-> Get(paymentResponse, "amount"),
                  recipient |-> Get(paymentResponse, "recipient"),
                  chainId |-> Get(paymentResponse, "chainId"),
                  raw |-> paymentResponse],
     status |-> resp.status,
     statusText |-> resp.statusText]

\* A continuation that throws on a non-OK status (if (!response.ok) throw ...).
SettleThrowingOnNonOk(parseJson, resp, readFails) ==
    LET b == BodyResult(parseJson, resp, readFails)
        p == PaymentResponse(resp)
    IN  IF resp.status >= 400 THEN Catch(Thrown(JStr("HTTP " \o ToString(resp.status)), Undefined))
        ELSE IF ~b.ok THEN Catch(b.error)
        ELSE IF ~p.ok THEN Catch(p.error)
        ELSE Envelope(b.value, p.value, resp)

\* Lines 161-183 once the body promise settled: the envelope or the wrapped error.
Settle(parseJson, resp, readFails) ==
    LET b == BodyResult(parseJson, resp, readFails)
        p == PaymentResponse(resp)
    IN  IF ~b.ok THEN Catch(b.error)
        ELSE IF ~p.ok THEN Catch(p.error)
        ELSE Envelope(b.value, p.value, resp)

----------------------------------------------------------------------------
(* X402Agent.callBuilderEndpoint *)

\* A builder URL that leaves out the path.
BuilderUrlWithoutPath(baseUrl) == baseUrl

\* const url = `${baseUrl}/api/payment/builder`
BuilderUrl(baseUrl) == baseUrl \o "/api/payment/builder"

\* { method: "GET" }
BuilderOptions ==
    [method |-> JStr("GET"), headers |-> Undefined, body |-> Undefined, parseJson |-> Undefined]

----------------------------------------------------------------------------
(* X402Agent.logResponse *)

\* `${v}` : a string or a number in a template literal
TemplateText(v) == IF v.t = "number" THEN ToString(v.v) ELSE v.v

\* `${v || "N/A"}`
OrNA(v) == IF Truthy(v) THEN TemplateText(v) ELSE "N/A"

\* customLabel || "X402 Response"
LogLabel(customLabel) == IF Truthy(customLabel) THEN customLabel.v ELSE "X402 Response"

\* The lines logResponse writes to the console for the label, the payment details
\* and the status (the banners and the dump of response.data are left out).
LogLines(response, customLabel) ==
    << LogLabel(customLabel),
       "  Transaction Hash: " \o OrNA(response.payment.txHash),
       "  Amount: " \o OrNA(response.payment.amount) \o " wei",
       "  Recipient: " \o OrNA(response.payment.recipient),
       "  Chain ID: " \o OrNA(response.payment.chainId),
       "  " \o ToString(response.status) \o " " \o response.statusText >>

\* A logResponse that hands the envelope back.
LogResponseReturnsEnvelope(response) == response

\* What logResponse(response) evaluates to: the method is void and has no return.
LogResponseReturn(response) == Undefined

----------------------------------------------------------------------------
(* State *)

\* One callEndpoint invocation: where its async function stands (pc), what its
\* closure still needs (parseJson), and what it got (response, thrown, outcome).
\* kind, changedHdr, fetches, decoders, headerDecodes, readFailed and thrown are
\* history.
IdleCall ==
    [pc |-> "idle", kind |-> "none", parseJson |-> Undefined, changedHdr |-> FALSE,
     fetches |-> 0, decoders |-> << >>, headerDecodes |-> 0, response |-> NoResponse, readFailed |-> FALSE, thrown |-> NoThrown,
     outcome |-> NoOutcome]

NoCall == [op |-> "none"]

Outstanding(i) == calls[i].pc \in {"fetching", "reading"}

\* The invocation after its synchronous prefix: rejected by the throw of line 145,
\* or suspended at the await of line 158 with the request handed over.
Started(op, options, H) ==
    IF BuildThrows(options)
    THEN [IdleCall EXCEPT !.pc = "done", !.kind = op, !.parseJson = options.parseJson,
                          !.outcome = StringifyTypeError]
    ELSE [IdleCall EXCEPT !.pc = "fetching", !.kind = op, !.parseJson = options.parseJson,
                          !.changedHdr = (HeadersAfter(options, H) # H),
                          !.fetches = 1]

\* parseJson ? response.json() : response.text(): the decoder that is called.
BodyDecoder(opt) == IF ParseJson(opt) THEN "json" ELSE "text"

\* await this.fetchWithPayment(..) resolved: line 161 calls the body decoder.
OnFetchResolved(c, resp) ==
    [c EXCEPT !.pc = "reading", !.response = resp,
              !.decoders = Append(c.decoders, BodyDecoder(c.parseJson))]

\* A catch block that calls the payment-capable function once more before giving up.
OnFetchRejectedRetrying(c, e) ==
    IF c.fetches < 2
    THEN [c EXCEPT !.fetches = c.fetches + 1]
    ELSE [c EXCEPT !.pc = "done", !.thrown = e, !.outcome = Catch(e), !.changedHdr = FALSE]

\* await this.fetchWithPayment(..) rejected: the catch block wraps and rethrows.
OnFetchRejected(c, e) ==
    [c EXCEPT !.pc = "done", !.thrown = e, !.outcome = Catch(e), !.changedHdr = FALSE]

\* The body promise settled: lines 161-183 run to the return or the rethrow.
OnBodySettled(c, readFails) ==
    [c EXCEPT !.pc = "done", !.changedHdr = FALSE, !.readFailed = readFails,
              !.headerDecodes = HeaderDecoderCalls(ParseJson(c.parseJson), c.response, readFails),
              !.outcome = Settle(ParseJson(c.parseJson), c.response, readFails)]

----------------------------------------------------------------------------
(* Chat (the chat component): handleSubmit and the form *)

Handlers == 1..MaxChatHandlers

\* What the user may have in the textarea.
InputTexts == {"", " \n", "hi", " a "}

Whitespace == {" ", "\n", "\t"}

RECURSIVE Trim(_)
\* s.trim()
Trim(s) ==
    IF s = "" THEN ""
    ELSE IF SubSeq(s, 1, 1) \in Whitespace THEN Trim(SubSeq(s, 2, Len(s)))
    ELSE IF SubSeq(s, Len(s), Len(s)) \in Whitespace THEN Trim(SubSeq(s, 1, Len(s) - 1))
    ELSE s

\* A blank test without trim.
BlankIfEmpty(s) == s = ""

\* !input.trim()
Blank(s) == Trim(s) = ""

\* if (!input.trim() || isLoading) return;  on the values the closure holds
SubmitIgnored(view) == Blank(view.input) \/ view.isLoading

\* { role: "user", content: input }
UserMessage(text) == [role |-> "user", content |-> text]

\* The messages the chat route answers with.
Replies == { << [role |-> "assistant", content |-> "ok"] >> }

\* The state values as one render sees them.
View(in, msgs, loading) == [input |-> in, messages |-> msgs, isLoading |-> loading]

\* One handleSubmit invocation: idle, awaiting fetch, or awaiting response.json();
\* sent is the messages array of the request body.
IdleHandler == [pc |-> "idle", sent |-> << >>]
NoEvent == [ev |-> "none"]

\* The fetch calls that have not settled, and the handlers between guard and finally.
ChatFetching == {h \in Handlers : chat[h].pc = "fetching"}
ChatRunning == {h \in Handlers : chat[h].pc # "idle"}

----------------------------------------------------------------------------
(* StorePage (the store page): handleDownload and the download button *)

DownloadHandlers == 1..MaxDownloads

\* What fetchWithPayment or response.blob() may throw: an Error with a message,
\* or a value that is not an Error.
StoreThrown ==
    { [isError |-> TRUE, message |-> "User rejected the request"],
      [isError |-> FALSE, message |-> ""] }

\* new Error("Failed to download file"), thrown on a response that is not ok
NotOkError == [isError |-> TRUE, message |-> "Failed to download file"]

\* err instanceof Error ? err.message : "Failed to download file. Please try again."
ErrorText(err) ==
    IF err.isError THEN err.message ELSE "Failed to download file. Please try again."

\* if (!isConnected || !walletClient)
Refused == ~isConnected \/ ~walletClient

\* disabled={isDownloading || !isConnected}
ButtonDisabled == isDownloading \/ ~isConnected

\* The handlers between the guard and the finally block.
Downloading == {h \in DownloadHandlers : downloads[h] # "idle"}

Init ==
    /\ account = [a \in Agents |-> NoAccount]
    /\ fetchWithPayment = [a \in Agents |-> NoFunction]
    /\ ctor = [a \in Agents |-> NotConstructed]
    /\ hdrOrig \in CallerHeaders
    /\ hdrObj = hdrOrig
    /\ calls = [i \in Slots |-> IdleCall]
    /\ last = NoCall
    /\ input = ""
    /\ messages = << >>
    /\ isLoading = FALSE
    /\ rendered = View("", << >>, FALSE)
    /\ chat = [h \in Handlers |-> IdleHandler]
    /\ chatLast = NoEvent
    /\ isDownloading = FALSE
    /\ error = JNull
    /\ success = FALSE
    /\ isConnected = FALSE
    /\ walletClient = FALSE
    /\ downloads = [h \in DownloadHandlers |-> "idle"]
    /\ timers = 0
    /\ storeLast = NoEvent

----------------------------------------------------------------------------
(* Actions *)

\* new X402Agent(privateKey)
Construct(a, privateKey) ==
    LET run == Constructor(privateKey)
    IN  /\ account[a] = NoAccount
        /\ ctor' = [ctor EXCEPT ![a] = run]
        /\ IF run.result = "ok"
           THEN LET acct == privateKeyToAccount(privateKey).address
                IN  /\ account' = [account EXCEPT ![a] = acct]
                    /\ fetchWithPayment' =
                           [fetchWithPayment EXCEPT ![a] = wrapFetchWithPayment(acct)]
           ELSE UNCHANGED <<account, fetchWithPayment>>
        /\ last' = NoCall
        /\ UNCHANGED <<hdrOrig, hdrObj, calls>>
        /\ UNCHANGED chatVars
        /\ UNCHANGED storeVars

\* A delegate that is the global fetch, closed over no account.
DelegateUnwrappedFetch(a) == [t |-> "fn", account |-> NoAccount]

\* this.fetchWithPayment, as read at line 158: the field the constructor set.
Delegate(a) == fetchWithPayment[a]

\* What the history keeps of an invocation: its arguments, what options.headers
\* held when it was made, whether other invocations were outstanding, the function it
\* delegated to and the request it handed over.
Invocation(op, i, a, base, url, options) ==
    [op |-> op, slot |-> i, agent |-> a, base |-> base, url |-> url,
     options |-> options, headersIn |-> HeadersArg(options, hdrObj),
     concurrent |-> (\E j \in Slots \ {i} : Outstanding(j)),
     changedByOther |-> (\E j \in Slots \ {i} : Outstanding(j) /\ calls[j].changedHdr),
     fn |-> Delegate(a),
     request |-> IF BuildThrows(options) THEN NoRequest
                 ELSE FetchOptions(url, options, hdrObj)]

\* agent.callEndpoint(url, options): the synchronous prefix, in a free slot.
CallEndpoint(i, a, url, options) ==
    /\ account[a] # NoAccount
    /\ calls[i].pc = "idle"
    /\ calls' = [calls EXCEPT ![i] = Started("callEndpoint", options, hdrObj)]
    /\ hdrObj' = IF BuildThrows(options) THEN hdrObj ELSE HeadersAfter(options, hdrObj)
    /\ last' = Invocation("callEndpoint", i, a, "", url, options)
    /\ UNCHANGED <<account, fetchWithPayment, ctor, hdrOrig>>
    /\ UNCHANGED chatVars
    /\ UNCHANGED storeVars

\* agent.callBuilderEndpoint(baseUrl): return this.callEndpoint(url, { method: "GET" })
CallBuilderEndpoint(i, a, baseUrl) ==
    /\ account[a] # NoAccount
    /\ calls[i].pc = "idle"
    /\ calls' = [calls EXCEPT ![i] = Started("callBuilderEndpoint", BuilderOptions, hdrObj)]
    /\ hdrObj' = IF BuildThrows(BuilderOptions) THEN hdrObj
                 ELSE HeadersAfter(BuilderOptions, hdrObj)
    /\ last' = Invocation("callBuilderEndpoint", i, a, baseUrl, BuilderUrl(baseUrl),
                          BuilderOptions)
    /\ UNCHANGED <<account, fetchWithPayment, ctor, hdrOrig>>
    /\ UNCHANGED chatVars
    /\ UNCHANGED storeVars

\* The payment-capable function returns a response.
FetchResolves(i, resp) ==
    /\ calls[i].pc = "fetching"
    /\ calls' = [calls EXCEPT ![i] = OnFetchResolved(calls[i], resp)]
    /\ last' = NoCall
    /\ UNCHANGED <<account, fetchWithPayment, ctor, hdrOrig, hdrObj>>
    /\ UNCHANGED chatVars
    /\ UNCHANGED storeVars

\* The payment-capable function throws.
FetchRejects(i, e) ==
    /\ calls[i].pc = "fetching"
    /\ calls' = [calls EXCEPT ![i] = OnFetchRejected(calls[i], e)]
    /\ last' = NoCall
    /\ UNCHANGED <<account, fetchWithPayment, ctor, hdrOrig, hdrObj>>
    /\ UNCHANGED chatVars
    /\ UNCHANGED storeVars

\* response.json() / response.text() settles; the rest of the function runs.
BodySettles(i, readFails) ==
    /\ calls[i].pc = "reading"
    /\ calls' = [calls EXCEPT ![i] = OnBodySettled(calls[i], readFails)]
    /\ last' = NoCall
    /\ UNCHANGED <<account, fetchWithPayment, ctor, hdrOrig, hdrObj>>
    /\ UNCHANGED chatVars
    /\ UNCHANGED storeVars

\* The caller has consumed the settled promise; the slot is free again.
Release(i) ==
    /\ calls[i].pc = "done"
    /\ calls' = [calls EXCEPT ![i] = IdleCall]
    /\ last' = NoCall
    /\ UNCHANGED <<account, fetchWithPayment, ctor, hdrOrig, hdrObj>>
    /\ UNCHANGED chatVars
    /\ UNCHANGED storeVars

\* agent.logResponse(response, customLabel) on the envelope a settled call gave:
\* console output only.
LogResponse(i, a, customLabel) ==
    /\ account[a] # NoAccount
    /\ calls[i].pc = "done"
    /\ calls[i].outcome.t = "envelope"
    /\ last' = [op |-> "logResponse", slot |-> i, agent |-> a, request |-> NoRequest,
                response |-> calls[i].outcome,
                lines |-> LogLines(calls[i].outcome, customLabel),
                returned |-> LogResponseReturn(calls[i].outcome)]
    /\ UNCHANGED <<account, fetchWithPayment, ctor, hdrOrig, hdrObj, calls>>
    /\ UNCHANGED chatVars
    /\ UNCHANGED storeVars

\* The labels a caller passes to logResponse.
Labels == {Undefined, JStr("Builder Endpoint Response")}

\* onChange of the textarea: setInput(e.target.value).  A disabled textarea takes
\* no input; React renders before the next event.
OnChange(text) ==
    /\ ~rendered.isLoading
    /\ input' = text
    /\ rendered' = View(text, messages, isLoading)
    /\ chatLast' = NoEvent
    /\ UNCHANGED <<messages, isLoading, chat>>
    /\ UNCHANGED agentVars
    /\ UNCHANGED storeVars

\* handleSubmit(e) up to the await of fetch, run by onSubmit of the form
\* (source "form") or by Enter in the textarea (source "enter", which a disabled
\* textarea does not raise), in handler h if it passes the guard.  React renders
\* the state set by an event handler before the next event.
HandleSubmit(h, source) ==
    /\ source = "enter" => ~rendered.isLoading
    /\ Len(messages) + 2 <= MaxMessages
    /\ IF SubmitIgnored(rendered)
       THEN /\ chatLast' = [ev |-> "submit", source |-> source,
                            seen |-> rendered, before |-> View(input, messages, isLoading),
                            handlers |-> chat]
            /\ UNCHANGED <<input, messages, isLoading, rendered, chat>>
       ELSE /\ chat[h].pc = "idle"
            /\ messages' = Append(messages, UserMessage(rendered.input))
            /\ input' = ""
            /\ isLoading' = TRUE
            /\ chat' = [chat EXCEPT ![h] =
                            [pc |-> "fetching",
                             sent |-> Append(rendered.messages, UserMessage(rendered.input))]]
            /\ rendered' = View(input', messages', isLoading')
            /\ chatLast' = [ev |-> "submit", source |-> source,
                            seen |-> rendered, before |-> View(input, messages, isLoading),
                            handlers |-> chat]
    /\ UNCHANGED agentVars
    /\ UNCHANGED storeVars

\* A handler that resets isLoading at the end of the try block only.
IsLoadingAfterSuccessOnly(how) == how # "ok"

\* finally { setIsLoading(false) }: the value of isLoading after the handler
\* ended in the way how ("ok", "not ok", "rejected", "bad body").
IsLoadingAfter(how) == FALSE

\* What the history keeps of a handler that ended: how it ended, the messages
\* array it had sent, the messages state before it ended and the reply it got.
Settled(h, how, reply) ==
    [ev |-> "settled", how |-> how, sent |-> chat[h].sent, before |-> messages,
     reply |-> reply]

\* fetch("/api/payment/chat") resolved: a response that is not ok throws to the
\* catch and the finally block; an ok one goes on to await response.json().
ChatFetchResolves(h, ok) ==
    /\ chat[h].pc = "fetching"
    /\ IF ok
       THEN /\ chat' = [chat EXCEPT ![h].pc = "reading"]
            /\ chatLast' = NoEvent
            /\ UNCHANGED isLoading
       ELSE /\ chat' = [chat EXCEPT ![h] = IdleHandler]
            /\ isLoading' = IsLoadingAfter("not ok")
            /\ chatLast' = Settled(h, "not ok", << >>)
    /\ UNCHANGED <<input, messages, rendered>>
    /\ UNCHANGED agentVars
    /\ UNCHANGED storeVars

\* fetch rejected: catch logs, finally runs setIsLoading(false).
ChatFetchRejects(h) ==
    /\ chat[h].pc = "fetching"
    /\ chat' = [chat EXCEPT ![h] = IdleHandler]
    /\ isLoading' = IsLoadingAfter("rejected")
    /\ chatLast' = Settled(h, "rejected", << >>)
    /\ UNCHANGED <<input, messages, rendered>>
    /\ UNCHANGED agentVars
    /\ UNCHANGED storeVars

\* response.json() settled: setMessages appends the new messages, or the catch
\* logs; finally runs setIsLoading(false).
ChatBodySettles(h, parsed, newMessages) ==
    /\ chat[h].pc = "reading"
    /\ chat' = [chat EXCEPT ![h] = IdleHandler]
    /\ messages' = IF parsed THEN messages \o newMessages ELSE messages
    /\ isLoading' = IsLoadingAfter(IF parsed THEN "ok" ELSE "bad body")
    /\ chatLast' = IF parsed THEN Settled(h, "ok", newMessages)
                   ELSE Settled(h, "bad body", << >>)
    /\ UNCHANGED <<input, rendered>>
    /\ UNCHANGED agentVars
    /\ UNCHANGED storeVars

\* React renders the state set outside an event handler.
Render ==
    /\ rendered # View(input, messages, isLoading)
    /\ rendered' = View(input, messages, isLoading)
    /\ chatLast' = NoEvent
    /\ UNCHANGED <<input, messages, isLoading, chat>>
    /\ UNCHANGED agentVars
    /\ UNCHANGED storeVars

\* A click on the download button, which the page takes only while the button is
\* enabled: handleDownload up to the await of fetchWithPayment, in handler h if
\* it passes the guard.
HandleDownload(h) ==
    /\ ~ButtonDisabled
    /\ timers < MaxTimers
    /\ storeLast' = [ev |-> "click", refused |-> Refused, isDownloading |-> isDownloading,
                     downloads |-> downloads]
    /\ IF Refused
       THEN /\ error' = JStr("Please connect your wallet to download")
            /\ UNCHANGED <<success, isDownloading, downloads>>
       ELSE /\ downloads[h] = "idle"
            /\ isDownloading' = TRUE
            /\ error' = JNull
            /\ success' = FALSE
            /\ downloads' = [downloads EXCEPT ![h] = "fetching"]
    /\ UNCHANGED <<isConnected, walletClient, timers>>
    /\ UNCHANGED agentVars
    /\ UNCHANGED chatVars

\* fetchWithPayment("/api/payment/store") resolved: a response that is not ok
\* throws to the catch and the finally block; an ok one goes on to await
\* response.blob().
DownloadFetchResolves(h, ok) ==
    /\ downloads[h] = "fetching"
    /\ IF ok
       THEN /\ downloads' = [downloads EXCEPT ![h] = "reading"]
            /\ UNCHANGED <<error, isDownloading>>
       ELSE /\ downloads' = [downloads EXCEPT ![h] = "idle"]
            /\ error' = JStr(ErrorText(NotOkError))
            /\ isDownloading' = FALSE
    /\ storeLast' = NoEvent
    /\ UNCHANGED <<success, isConnected, walletClient, timers>>
    /\ UNCHANGED agentVars
    /\ UNCHANGED chatVars

\* fetchWithPayment rejected: catch sets the error, finally ends the download.
DownloadFetchRejects(h, err) ==
    /\ downloads[h] = "fetching"
    /\ downloads' = [downloads EXCEPT ![h] = "idle"]
    /\ error' = JStr(ErrorText(err))
    /\ isDownloading' = FALSE
    /\ storeLast' = NoEvent
    /\ UNCHANGED <<success, isConnected, walletClient, timers>>
    /\ UNCHANGED agentVars
    /\ UNCHANGED chatVars

\* response.blob() resolved: the file is handed to the browser, setSuccess(true)
\* and the timer of line 95 is started; finally ends the download.
BlobResolves(h) ==
    /\ downloads[h] = "reading"
    /\ downloads' = [downloads EXCEPT ![h] = "idle"]
    /\ success' = TRUE
    /\ timers' = timers + 1
    /\ isDownloading' = FALSE
    /\ storeLast' = NoEvent
    /\ UNCHANGED <<error, isConnected, walletClient>>
    /\ UNCHANGED agentVars
    /\ UNCHANGED chatVars

\* response.blob() rejected: catch sets the error, finally ends the download.
BlobRejects(h, err) ==
    /\ downloads[h] = "reading"
    /\ downloads' = [downloads EXCEPT ![h] = "idle"]
    /\ error' = JStr(ErrorText(err))
    /\ isDownloading' = FALSE
    /\ storeLast' = NoEvent
    /\ UNCHANGED <<success, isConnected, walletClient, timers>>
    /\ UNCHANGED agentVars
    /\ UNCHANGED chatVars

\* A timer of line 95 expires: setSuccess(false).
SuccessTimerFires ==
    /\ timers > 0
    /\ timers' = timers - 1
    /\ success' = FALSE
    /\ storeLast' = NoEvent
    /\ UNCHANGED <<isDownloading, error, isConnected, walletClient, downloads>>
    /\ UNCHANGED agentVars
    /\ UNCHANGED chatVars

\* The wallet connects: useAccount() reports isConnected, useWalletClient() has no
\* data yet.
Connect ==
    /\ ~isConnected
    /\ isConnected' = TRUE
    /\ storeLast' = NoEvent
    /\ UNCHANGED <<isDownloading, error, success, walletClient, downloads, timers>>
    /\ UNCHANGED agentVars
    /\ UNCHANGED chatVars

\* useWalletClient() has loaded the client of the connected wallet.
WalletClientLoaded ==
    /\ isConnected /\ ~walletClient
    /\ walletClient' = TRUE
    /\ storeLast' = NoEvent
    /\ UNCHANGED <<isDownloading, error, success, isConnected, downloads, timers>>
    /\ UNCHANGED agentVars
    /\ UNCHANGED chatVars

\* The wallet disconnects: no account, no wallet client.
Disconnect ==
    /\ isConnected
    /\ isConnected' = FALSE
    /\ walletClient' = FALSE
    /\ storeLast' = NoEvent
    /\ UNCHANGED <<isDownloading, error, success, downloads, timers>>
    /\ UNCHANGED agentVars
    /\ UNCHANGED chatVars

\* The one client the script builds.
Clients == {"agent"}

\* A caller that awaits each call before it makes the next one, as
\* scripts/agentExample.ts does: one slot, the full input sets.
SeqSlots == {1}

Next ==
    \/ \E a \in Clients, k \in Keys : Construct(a, k)
    \/ \E i \in SeqSlots, a \in Clients, u \in Urls, o \in Options : CallEndpoint(i, a, u, o)
    \/ \E i \in SeqSlots, a \in Clients, b \in Bases : CallBuilderEndpoint(i, a, b)
    \/ \E i \in SeqSlots, r \in Responses : FetchResolves(i, r)
    \/ \E i \in SeqSlots, e \in TransportErrors : FetchRejects(i, e)
    \/ \E i \in SeqSlots, f \in BOOLEAN : BodySettles(i, f)
    \/ \E i \in SeqSlots : Release(i)
    \/ \E i \in SeqSlots, a \in Clients, l \in Labels : LogResponse(i, a, l)

Spec == Init /\ [][Next]_vars

\* A caller that keeps up to MaxOutstanding calls outstanding at once, with the
\* inputs that decide what concurrent invocations share.
ConcKeys == {"0x1", "1"}
ConcUrls == {BuilderUrl("")}
ConcOptions ==
    [method : {Undefined}, headers : HeaderOpts,
     body : {Undefined, JStr("s"), JObj(<< <<"a", JNum(1)>> >>)},
     parseJson : {Undefined, JBool(FALSE)}]
ConcResponses ==
    {r \in Responses : /\ r.body = JSONStringify(MessageDoc)
                       /\ r.header \in {JNull, JStr(EncodeXPaymentResponse(PaymentFull))}}
ConcErrors == {Thrown(JStr("net down"), Undefined)}

NextConc ==
    \/ \E a \in Clients, k \in ConcKeys : Construct(a, k)
    \/ \E i \in Slots, a \in Clients, u \in ConcUrls, o \in ConcOptions : CallEndpoint(i, a, u, o)
    \/ \E i \in Slots, a \in Clients, b \in {""} : CallBuilderEndpoint(i, a, b)
    \/ \E i \in Slots, r \in ConcResponses : FetchResolves(i, r)
    \/ \E i \in Slots, e \in ConcErrors : FetchRejects(i, e)
    \/ \E i \in Slots, f \in BOOLEAN : BodySettles(i, f)
    \/ \E i \in Slots : Release(i)
    \/ \E i \in Slots, a \in Clients, l \in {Undefined} : LogResponse(i, a, l)

SpecConc == Init /\ [][NextConc]_vars

\* A process that builds two clients and uses them in turn, each call awaited
\* before the next one.
NextTwin ==
    \/ \E a \in Agents, k \in ConcKeys \cup ValidKeys : Construct(a, k)
    \/ \E i \in SeqSlots, a \in Agents, u \in ConcUrls, o \in ConcOptions : CallEndpoint(i, a, u, o)
    \/ \E i \in SeqSlots, a \in Agents, b \in {""} : CallBuilderEndpoint(i, a, b)
    \/ \E i \in SeqSlots, r \in ConcResponses : FetchResolves(i, r)
    \/ \E i \in SeqSlots, e \in ConcErrors : FetchRejects(i, e)
    \/ \E i \in SeqSlots, f \in BOOLEAN : BodySettles(i, f)
    \/ \E i \in SeqSlots : Release(i)
    \/ \E i \in SeqSlots, a \in Agents, l \in Labels : LogResponse(i, a, l)

SpecTwin == Init /\ [][NextTwin]_vars

\* The chat component under a user who types and submits, and a server.
NextChat ==
    \/ \E t \in InputTexts : OnChange(t)
    \/ \E h \in Handlers, s \in {"form", "enter"} : HandleSubmit(h, s)
    \/ \E h \in Handlers, ok \in BOOLEAN : ChatFetchResolves(h, ok)
    \/ \E h \in Handlers : ChatFetchRejects(h)
    \/ \E h \in Handlers, p \in BOOLEAN, m \in Replies : ChatBodySettles(h, p, m)
    \/ Render

SpecChat == Init /\ [][NextChat]_vars

\* The chat component when every request completes: the fetch promise and the
\* body promise of a running handler settle.
SpecChatFair ==
    /\ Init
    /\ [][NextChat]_vars
    /\ WF_vars(\E h \in Handlers : (\E ok \in BOOLEAN : ChatFetchResolves(h, ok))
                                      \/ ChatFetchRejects(h))
    /\ WF_vars(\E h \in Handlers, p \in BOOLEAN, m \in Replies : ChatBodySettles(h, p, m))

\* The store page under a user who clicks, a wallet that comes and goes, a server
\* and the success timers.
NextStore ==
    \/ \E h \in DownloadHandlers : HandleDownload(h)
    \/ \E h \in DownloadHandlers, ok \in BOOLEAN : DownloadFetchResolves(h, ok)
    \/ \E h \in DownloadHandlers, e \in StoreThrown : DownloadFetchRejects(h, e)
    \/ \E h \in DownloadHandlers : BlobResolves(h)
    \/ \E h \in DownloadHandlers, e \in StoreThrown : BlobRejects(h, e)
    \/ SuccessTimerFires
    \/ Connect
    \/ WalletClientLoaded
    \/ Disconnect

SpecStore == Init /\ [][NextStore]_vars

----------------------------------------------------------------------------
(* Properties *)

Done(i) == calls[i].pc = "done"
IsEnvelope(o) == o.t = "envelope"
IsError(o) == o.t = "error"
\* The error callEndpoint's catch block produces.
IsRequestError(o) ==
    IsError(o) /\ o.site = "catch" /\ StartsWith(o.message, "X402 request failed: ")
\* The history holds a callEndpoint invocation that handed a request over.
Emitted == last.op # "none" /\ last.request # NoRequest

\* C1: for every object-valued options.body the request handed to the
\* payment-capable function carries the JSON serialization of the object and a
\* Content-Type of application/json, unless the caller supplied a Content-Type
\* in options.headers, which is then left as the caller gave it.
C1_CallerContentTypeKept ==
    (Emitted /\ IsObjectBody(last.options)) =>
        /\ last.request.body = JStr(JSONStringify(last.options.body))
        /\ ContentType \in DOMAIN last.request.headers
        /\ last.request.headers[ContentType] =
               IF ContentType \in DOMAIN last.headersIn
               THEN last.headersIn[ContentType]
               ELSE ApplicationJson

\* C2: every failure of a callEndpoint invocation, in whichever phase it is
\* raised, reaches the caller as the RequestError of callEndpoint's catch block.
C2_EveryFailureWrapped ==
    \A i \in Slots : (Done(i) /\ IsError(calls[i].outcome)) => IsRequestError(calls[i].outcome)

\* The body of the response decodes: the stream is read, and it parses when
\* JSON is asked for.
BodyDecodes(c) ==
    /\ ~c.readFailed
    /\ (ParseJson(c.parseJson) => \E d \in JsonDocs : JSONStringify(d) = c.response.body)
\* The payment header of the response is absent, empty or decodable.
HeaderDecodes(c) ==
    Truthy(c.response.header) => decodeXPaymentResponse(c.response.header.v).ok

\* C3 as stated: whenever the payment-capable function returns a response, the
\* invocation ends in an envelope whose status is the response's status.
C3_ResponseAlwaysEnvelope ==
    \A i \in Slots :
        (Done(i) /\ calls[i].response # NoResponse) =>
            /\ IsEnvelope(calls[i].outcome)
            /\ calls[i].outcome.status = calls[i].response.status

\* C3 amended: whenever the payment-capable function returns a response whose
\* body and payment header decode, the invocation ends in an envelope whose
\* status is the response's status, whatever the status code is.
C3_StatusPassedThrough ==
    \A i \in Slots :
        (Done(i) /\ calls[i].response # NoResponse /\ BodyDecodes(calls[i])
                 /\ HeaderDecodes(calls[i])) =>
            /\ IsEnvelope(calls[i].outcome)
            /\ calls[i].outcome.status = calls[i].response.status

C3_Witness ==
    \E i \in Slots :
        /\ Done(i) /\ calls[i].response # NoResponse
        /\ calls[i].response.status = 402
        /\ IsEnvelope(calls[i].outcome)
        /\ calls[i].outcome.status = 402

\* C4: a key that does not begin with 0x makes the constructor fail with the
\* ConfigurationError before the identity is derived and before the
\* payment-capable function is built; the client holds neither.
C4_BadPrefixRejectedFirst ==
    \A a \in Agents :
        (ctor[a].result # "none" /\ ~StartsWith(ctor[a].key, "0x")) =>
            /\ ctor[a].result = "ConfigurationError"
            /\ ctor[a].libCalls = << >>
            /\ account[a] = NoAccount
            /\ fetchWithPayment[a] = NoFunction

C4_Witness ==
    \E a \in Agents :
        /\ ctor[a].result = "ConfigurationError"
        /\ ctor[a].key = "0a"
        /\ account[a] = NoAccount

\* C5: when the payment-capable function throws an error whose message is m,
\* the invocation rejects with the RequestError and its message contains m; no
\* envelope is returned.
C5_TransportErrorTextKept ==
    \A i \in Slots :
        (Done(i) /\ calls[i].thrown # NoThrown /\ calls[i].thrown.message.t = "string") =>
            /\ IsRequestError(calls[i].outcome)
            /\ Contains(calls[i].outcome.message, calls[i].thrown.message.v)

C5_Witness ==
    \E i \in Slots :
        /\ Done(i)
        /\ calls[i].thrown # NoThrown
        /\ calls[i].thrown.message = JStr("net down")
        /\ IsError(calls[i].outcome)

PaymentFields == {"txHash", "amount", "recipient", "chainId"}

\* C6: when the final response has no x-payment-response header, the envelope
\* has payment.raw = null, none of txHash, amount, recipient, chainId set, and
\* the status and statusText of the response.
C6_NoHeaderNoPayment ==
    \A i \in Slots :
        (Done(i) /\ IsEnvelope(calls[i].outcome) /\ calls[i].response.header = JNull) =>
            /\ calls[i].outcome.payment.raw = JNull
            /\ \A f \in PaymentFields : calls[i].outcome.payment[f] = Undefined
            /\ calls[i].outcome.status = calls[i].response.status
            /\ calls[i].outcome.statusText = calls[i].response.statusText

C6_Witness ==
    \E i \in Slots :
        /\ Done(i) /\ IsEnvelope(calls[i].outcome)
        /\ calls[i].response.header = JNull
        /\ calls[i].outcome.payment.raw = JNull
        /\ calls[i].outcome.status = 402

\* C7: when a decodable payment header is present, txHash, amount, recipient
\* and chainId of the envelope are the decoded object's fields, a field the
\* decoded object lacks is absent from the envelope, and payment.raw is the
\* decoded object.
C7_PaymentFieldsFromHeader ==
    \A i \in Slots :
        (Done(i) /\ IsEnvelope(calls[i].outcome) /\ Truthy(calls[i].response.header)) =>
            LET d == decodeXPaymentResponse(calls[i].response.header.v).value
                pay == calls[i].outcome.payment
            IN  /\ pay.raw = d
                /\ \A f \in PaymentFields :
                       /\ \A k \in 1..Len(d.v) : d.v[k][1] = f => pay[f] = d.v[k][2]
                       /\ (\A k \in 1..Len(d.v) : d.v[k][1] # f) => pay[f] = Undefined

C7_Witness ==
    \E i \in Slots :
        /\ Done(i) /\ IsEnvelope(calls[i].outcome)
        /\ calls[i].response.header = JStr(EncodeXPaymentResponse(PaymentPartial))
        /\ calls[i].outcome.payment.txHash = JStr("0xabc")
        /\ calls[i].outcome.payment.amount = Undefined

\* C8: one callEndpoint invocation never calls the payment-capable function more
\* than once, and has called it exactly once whenever that function returned a
\* response (of any status, decodable or not) or threw.
C8_NoRetry ==
    \A i \in Slots :
        /\ calls[i].fetches <= 1
        /\ (calls[i].response # NoResponse \/ calls[i].thrown # NoThrown \/ Outstanding(i))
               => calls[i].fetches = 1

C8_Witness ==
    \E i \in Slots :
        /\ Done(i)
        /\ calls[i].response # NoResponse
        /\ IsError(calls[i].outcome)
        /\ calls[i].fetches = 1

\* The request an invocation would hand over had no other invocation that is still
\* outstanding written to the caller's headers object.
RequestAlone ==
    FetchOptions(last.url, last.options,
                 IF last.changedByOther THEN hdrOrig ELSE last.headersIn)

\* The outcome of a settled invocation as its own response or transport error gives it.
OutcomeAlone(c) ==
    IF c.thrown # NoThrown THEN Catch(c.thrown)
    ELSE Settle(ParseJson(c.parseJson), c.response, c.readFailed)

\* C9: an invocation made while others are outstanding hands over the request it
\* would hand over alone, and ends as its own response alone decides: it reads
\* nothing another invocation wrote.
C9_ConcurrentCallsIndependent ==
    /\ (Emitted /\ last.concurrent) => last.request = RequestAlone
    /\ \A i \in Slots :
           (Done(i) /\ (calls[i].response # NoResponse \/ calls[i].thrown # NoThrown))
               => calls[i].outcome = OutcomeAlone(calls[i])

\* C10: callBuilderEndpoint(base) hands over the request of
\* callEndpoint(base + "/api/payment/builder", {method: "GET"}) and ends as that
\* call ends on the same response or transport error.
C10_BuilderIsCallEndpoint ==
    /\ (Emitted /\ last.op = "callBuilderEndpoint") =>
           last.request =
               FetchOptions(last.base \o "/api/payment/builder",
                            [method |-> JStr("GET"), headers |-> Undefined,
                             body |-> Undefined, parseJson |-> Undefined],
                            hdrObj)
    /\ \A i \in Slots :
           (Done(i) /\ calls[i].kind = "callBuilderEndpoint") =>
               calls[i].outcome =
                   IF calls[i].thrown # NoThrown THEN Catch(calls[i].thrown)
                   ELSE Settle(TRUE, calls[i].response, calls[i].readFailed)

C10_Witness ==
    /\ Emitted
    /\ last.op = "callBuilderEndpoint"
    /\ last.base = "http://x"
    /\ last.request.url = "http://x/api/payment/builder"
    /\ last.request.method = "GET"

\* The history holds a callEndpoint or callBuilderEndpoint invocation.
IsCall == last.op \in {"callEndpoint", "callBuilderEndpoint"}

\* C11: once a client is constructed, whatever calls and logResponse runs were
\* made and whatever is outstanding, address is the value derived from the key
\* at construction, the payment-capable function is the one built from that
\* account at construction, and every call delegates to that function.
C11_IdentityFixed ==
    /\ \A a \in Agents :
           ctor[a].result = "ok" =>
               /\ Address(a) = privateKeyToAccount(ctor[a].key).address
               /\ fetchWithPayment[a] = wrapFetchWithPayment(Address(a))
    /\ IsCall => last.fn = wrapFetchWithPayment(privateKeyToAccount(ctor[last.agent].key).address)

C11_Witness ==
    /\ IsCall
    /\ last.concurrent
    /\ \E j \in Slots \ {last.slot} : calls[j].pc = "reading"
    /\ last.fn = wrapFetchWithPayment("0xA1")
    /\ Address(last.agent) = "0xA1"

\* C12: two clients constructed with the same valid key report the same
\* address, whatever operations either of them has performed.
C12_SameKeySameAddress ==
    \A a, b \in Agents :
        (ctor[a].result = "ok" /\ ctor[b].result = "ok" /\ ctor[a].key = ctor[b].key)
            => Address(a) = Address(b)

C12_Witness ==
    /\ ctor["agent"].result = "ok" /\ ctor["twin"].result = "ok"
    /\ ctor["agent"].key = "0x2" /\ ctor["twin"].key = "0x2"
    /\ Address("agent") = Address("twin")
    /\ last.op = "logResponse" /\ last.agent = "twin"

\* C13: a call that ends in an envelope has applied exactly one body decoder:
\* response.json() when parseJson is true or omitted, and then data is the
\* document parsed from the body text; response.text() when parseJson is false,
\* and then data is the body text itself.
C13_DataAsParseJsonSelects ==
    \A i \in Slots :
        (Done(i) /\ IsEnvelope(calls[i].outcome)) =>
            /\ Len(calls[i].decoders) = 1
            /\ calls[i].parseJson \in {Undefined, JBool(TRUE)} =>
                   /\ calls[i].decoders = <<"json">>
                   /\ calls[i].outcome.data \in JsonDocs
                   /\ JSONStringify(calls[i].outcome.data) = calls[i].response.body
            /\ calls[i].parseJson = JBool(FALSE) =>
                   /\ calls[i].decoders = <<"text">>
                   /\ calls[i].outcome.data = JStr(calls[i].response.body)

C13_Witness ==
    \E i \in Slots :
        /\ Done(i) /\ IsEnvelope(calls[i].outcome)
        /\ calls[i].parseJson = JBool(FALSE)
        /\ calls[i].response.body = "oops"
        /\ calls[i].outcome.data = JStr("oops")
        /\ calls[i].decoders = <<"text">>

\* The options with every omitted field written out as its documented default:
\* method "GET", parseJson true, no body; explicit headers are an empty object.
WithDefaults(options) ==
    [method |-> IF options.method = Undefined THEN JStr("GET") ELSE options.method,
     headers |-> HRef,
     body |-> options.body,
     parseJson |-> IF options.parseJson = Undefined THEN JBool(TRUE) ELSE options.parseJson]

\* C14: a call with fields of options omitted hands over the request, and ends
\* with the outcome, of the call that has the omitted fields set to "GET", an
\* empty headers object, no body and parseJson true.
C14_OmittedFieldsAreDefaults ==
    /\ (IsCall /\ last.op = "callEndpoint") =>
           LET full == WithDefaults(last.options)
               H == IF last.options.headers = Undefined THEN EmptyHeaders ELSE last.headersIn
           IN  last.request =
                   IF BuildThrows(full) THEN NoRequest ELSE FetchOptions(last.url, full, H)
    /\ \A i \in Slots :
           (Done(i) /\ calls[i].kind = "callEndpoint" /\ calls[i].response # NoResponse) =>
               calls[i].outcome =
                   LET pj == IF calls[i].parseJson = Undefined THEN JBool(TRUE)
                             ELSE calls[i].parseJson
                   IN  Settle(Truthy(pj), calls[i].response, calls[i].readFailed)

C14_Witness ==
    /\ Emitted /\ last.op = "callEndpoint"
    /\ last.options = [method |-> Undefined, headers |-> Undefined, body |-> Undefined,
                       parseJson |-> Undefined]
    /\ last.request.method = "GET"
    /\ last.request.headers = EmptyHeaders
    /\ last.request.body = Undefined

\* C15: when the x-payment-response header is present with an empty value the
\* decoder is not invoked, and the call ends as it ends on the same response
\* without the header: on an envelope, payment.raw is null and txHash, amount,
\* recipient and chainId are not set.
C15_EmptyHeaderIsNoHeader ==
    \A i \in Slots :
        (Done(i) /\ calls[i].response # NoResponse /\ calls[i].response.header = JStr("")) =>
            /\ calls[i].headerDecodes = 0
            /\ calls[i].outcome =
                   Settle(ParseJson(calls[i].parseJson),
                          [calls[i].response EXCEPT !.header = JNull], calls[i].readFailed)
            /\ IsEnvelope(calls[i].outcome) =>
                   /\ calls[i].outcome.payment.raw = JNull
                   /\ \A f \in PaymentFields : calls[i].outcome.payment[f] = Undefined

C15_Witness ==
    \E i \in Slots :
        /\ Done(i) /\ IsEnvelope(calls[i].outcome)
        /\ calls[i].response.header = JStr("")
        /\ calls[i].headerDecodes = 0
        /\ calls[i].outcome.payment.raw = JNull

\* C16: callEndpoint leaves the caller's options.headers object as it was: at
\* every point, while calls are outstanding and after they returned or threw,
\* the object holds exactly the entries the caller put into it.
C16_CallerHeadersUnchanged == hdrObj = hdrOrig

\* C17: when the body of the response was decoded and the decoder throws on the
\* payment header that is present, the call rejects with the RequestError of
\* the catch block, which carries the decoder's message; no envelope is returned.
C17_DecodeFailureRejects ==
    \A i \in Slots :
        (/\ Done(i) /\ calls[i].response # NoResponse
         /\ BodyDecodes(calls[i])
         /\ Truthy(calls[i].response.header)
         /\ ~decodeXPaymentResponse(calls[i].response.header.v).ok) =>
            /\ calls[i].headerDecodes = 1
            /\ ~IsEnvelope(calls[i].outcome)
            /\ IsRequestError(calls[i].outcome)
            /\ calls[i].outcome.message = "X402 request failed: bad payment header"

C17_Witness ==
    \E i \in Slots :
        /\ Done(i) /\ calls[i].response # NoResponse
        /\ calls[i].response.header = JStr("!")
        /\ calls[i].response.status = 200
        /\ calls[i].decoders = <<"text">>
        /\ ~calls[i].readFailed
        /\ IsRequestError(calls[i].outcome)

\* The falsy values of JavaScript that options.body takes in this model.
FalsyBodies == {Undefined, JNull, JStr(""), JNum(0), JBool(FALSE)}

\* C18: the request has a body exactly when options.body is truthy.  A falsy
\* body gives a request without a body and with the headers as passed; a truthy
\* body that is not an object is handed over as it is, with the headers as
\* passed; a truthy object or array is handed over as its JSON text.
C18_BodyAttachedIffTruthy ==
    IsCall =>
        LET b == last.options.body
        IN  /\ b \in FalsyBodies =>
                   /\ Emitted
                   /\ last.request.body = Undefined
                   /\ last.request.headers = last.headersIn
            /\ (b \notin FalsyBodies /\ b.t \in {"string", "number", "boolean"}) =>
                   /\ Emitted
                   /\ last.request.body = b
                   /\ last.request.headers = last.headersIn
            /\ (b.t \in {"object", "array"} /\ Emitted) =>
                   last.request.body = JStr(JSONStringify(b))
            /\ Emitted => (last.request.body # Undefined <=> b \notin FalsyBodies)

C18_Witness ==
    /\ Emitted
    /\ last.options.body = JArr(<<JNum(1)>>)
    /\ last.request.body = JStr("[1]")

\* C19: a logResponse run returns no value, hands no request to the
\* payment-capable function, and leaves the envelope it was given, every
\* invocation, the caller's headers object and the client's account and
\* payment-capable function as they were; it only writes lines to the console.
C19_LogResponseOnlyLogs ==
    [][last'.op = "logResponse" =>
          /\ last'.returned = Undefined
          /\ last'.request = NoRequest
          /\ last'.response = calls[last'.slot].outcome
          /\ calls' = calls
          /\ UNCHANGED <<account, fetchWithPayment, ctor, hdrOrig, hdrObj>>]_vars

C19_Witness ==
    /\ last.op = "logResponse"
    /\ last.response.payment =
           [txHash |-> Undefined, amount |-> Undefined, recipient |-> Undefined,
            chainId |-> Undefined, raw |-> JNull]
    /\ last.lines[1] = "X402 Response"
    /\ last.lines[2] = "  Transaction Hash: N/A"
    /\ last.lines[3] = "  Amount: N/A wei"
    /\ last.lines[6] = "  402 Payment Required"
    /\ last.returned = Undefined
    /\ calls[last.slot].outcome = last.response

\* The text consists of whitespace only (the empty text included).
WhitespaceOnly(s) == \A k \in 1..Len(s) : SubSeq(s, k, k) \in Whitespace

\* C20: at most one chat request is outstanding at any time, and a submit that
\* arrives while a handleSubmit run has not finished, or while the input is
\* blank, starts no request and leaves messages, input and isLoading as they
\* were.
C20_OneChatRequest ==
    /\ Cardinality(ChatRunning) <= 1
    /\ chatLast.ev = "submit" =>
           LET loading == \E h \in Handlers : chatLast.handlers[h].pc # "idle"
           IN  (loading \/ WhitespaceOnly(chatLast.before.input)) =>
                   /\ chat = chatLast.handlers
                   /\ input = chatLast.before.input
                   /\ messages = chatLast.before.messages
                   /\ isLoading = chatLast.before.isLoading

C20_Witness ==
    /\ chatLast.ev = "submit" /\ chatLast.source = "form"
    /\ chatLast.handlers[1].pc = "fetching"
    /\ chatLast.before.isLoading
    /\ chat = chatLast.handlers
    /\ messages = <<UserMessage(" a ")>>
    /\ isLoading

\* A handler that has just ended left isLoading false; the user's message is the
\* last one it had sent and the last one in messages before it ended; on
\* success messages gained the reply after it, otherwise nothing.
HandlerEndedWell ==
    chatLast.ev = "settled" =>
        /\ ~isLoading
        /\ chatLast.how \in {"ok", "not ok", "rejected", "bad body"}
        /\ Len(chatLast.before) > 0
        /\ chatLast.before[Len(chatLast.before)] = chatLast.sent[Len(chatLast.sent)]
        /\ chatLast.before[Len(chatLast.before)].role = "user"
        /\ messages = IF chatLast.how = "ok" THEN chatLast.before \o chatLast.reply
                      ELSE chatLast.before

\* C21: when every request completes, isLoading set by an accepted submit goes
\* back to false, whether the request succeeds, returns a status that is not
\* ok, or throws; on success the new messages of the server follow the user's
\* message in messages, on failure messages keeps the user's message and gains
\* nothing.
C21_LoadingEnds ==
    /\ []HandlerEndedWell
    /\ isLoading ~> ~isLoading

C21_Witness ==
    /\ chatLast.ev = "settled" /\ chatLast.how = "not ok"
    /\ chatLast.before = <<UserMessage("hi")>>
    /\ messages = <<UserMessage("hi")>>
    /\ ~isLoading
    /\ ChatRunning = {}

\* C22: on the store page the error and the success indicator are never both
\* set, and a click that finds no connected wallet or no wallet client starts no
\* payment request and leaves isDownloading as it was.
C22_ErrorAndSuccessExclusive ==
    /\ ~(Truthy(error) /\ success)
    /\ (storeLast.ev = "click" /\ storeLast.refused) =>
           /\ downloads = storeLast.downloads
           /\ isDownloading = storeLast.isDownloading
           /\ ~isDownloading

====
